---- MODULE Spec2Model ----
(***************************************************************************)
(* The /convert request of the JSON-to-LUT converter (src/main.py): the    *)
(* upload checks, the JSON parse, the grid generation loop and the .cube   *)
(* serialisation loop of convert_json_to_lut, and the exception handlers   *)
(* that turn every failure into an error page.                             *)
(*                                                                         *)
(* Python values are tagged records ([t |-> "str", v |-> ...]); a Python   *)
(* float is an exact fraction with a sign bit (so that -0.0 exists); text  *)
(* is a sequence of tokens (a literal piece, a character of the name, a    *)
(* formatted number), and a line ends at every newline token.              *)
(***************************************************************************)
EXTENDS Integers, Sequences, FiniteSets, TLC

(* main.py:12 sets lut_size = 33.  Every loop and formula below is written *)
(* in terms of lut_size; the model runs them on a smaller cube.            *)
lut_size == 3

(* The 10^6 of the ".6f" format of main.py:48. *)
Micro == 1000000

-----------------------------------------------------------------------------
(* Python values *)

None == [t |-> "null"]
Bool(x) == [t |-> "bool", v |-> x]
Str(chars) == [t |-> "str", v |-> chars]
List(elems) == [t |-> "list", v |-> elems]

(* A dict from a set of <<key, value>> pairs with distinct keys. *)
Dict(pairs) ==
    [t |-> "dict",
     v |-> [k \in {p[1] : p \in pairs} |-> (CHOOSE p \in pairs : p[1] = k)[2]]]

RECURSIVE Gcd(_, _)
Gcd(a, b) == IF b = 0 THEN a ELSE Gcd(b, a % b)

(* A number: sign bit and the fraction num/den in lowest terms.  tag is    *)
(* "int" or "float"; zero keeps its sign, as an IEEE double does.          *)
Number(tag, neg, num, den) ==
    LET d == Gcd(num, den)
    IN  [t |-> tag, neg |-> neg, num |-> num \div d, den |-> den \div d]

PyInt(n) == Number("int", n < 0, IF n < 0 THEN -n ELSE n, 1)
PyFloat(neg, num, den) == Number("float", neg, num, den)

IsNumber(x) == x.t \in {"int", "float"}

(* Python's type names, as they appear in its error messages. *)
TypeName(x) ==
    CASE x.t = "null" -> "NoneType"
      [] x.t = "bool" -> "bool"
      [] x.t = "str" -> "str"
      [] x.t = "list" -> "list"
      [] x.t = "dict" -> "dict"
      [] x.t = "int" -> "int"
      [] x.t = "float" -> "float"

-----------------------------------------------------------------------------
(* Results of an evaluation: a value, or the exception it raised. *)

Ok(x) == [ok |-> TRUE, v |-> x]
Exc(type, text) == [type |-> type, text |-> text]
Raise(type, text) == [ok |-> FALSE, exc |-> Exc(type, text)]

(* obj[key] for a string key. *)
GetKey(obj, key) ==
    CASE obj.t = "dict" ->
            IF key \in DOMAIN obj.v THEN Ok(obj.v[key])
            ELSE Raise("KeyError", <<"'", key, "'">>)
      [] obj.t = "list" ->
            Raise("TypeError",
                  <<"list indices must be integers or slices, not str">>)
      [] obj.t = "str" ->
            Raise("TypeError", <<"string indices must be integers, not 'str'">>)
      [] OTHER ->
            Raise("TypeError",
                  <<"'", TypeName(obj), "' object is not subscriptable">>)

(* The same with a default of 0 past the end of a list, as a lenient       *)
(* getter would give.                                                      *)
GetIndexOrZero(obj, n) ==
    CASE obj.t = "list" ->
            IF n < Len(obj.v) THEN Ok(obj.v[n + 1]) ELSE Ok(PyInt(0))
      [] obj.t = "str" ->
            IF n < Len(obj.v) THEN Ok(Str(<<obj.v[n + 1]>>))
            ELSE Raise("IndexError", <<"string index out of range">>)
      [] obj.t = "dict" ->
            Raise("KeyError", <<ToString(n)>>)
      [] OTHER ->
            Raise("TypeError",
                  <<"'", TypeName(obj), "' object is not subscriptable">>)

(* obj[n] for an index n >= 0. *)
GetIndex(obj, n) ==
    CASE obj.t = "list" ->
            IF n < Len(obj.v) THEN Ok(obj.v[n + 1])
            ELSE Raise("IndexError", <<"list index out of range">>)
      [] obj.t = "str" ->
            IF n < Len(obj.v) THEN Ok(Str(<<obj.v[n + 1]>>))
            ELSE Raise("IndexError", <<"string index out of range">>)
      [] obj.t = "dict" ->
            Raise("KeyError", <<ToString(n)>>)
      [] OTHER ->
            Raise("TypeError",
                  <<"'", TypeName(obj), "' object is not subscriptable">>)

-----------------------------------------------------------------------------
(* Arithmetic of the generator *)

(* a / b of two ints (true division): a float. *)
TrueDiv(a, b) == PyFloat(FALSE, a, b)

(* The same with any value that is no number taken as the factor 1. *)
MulCoerce(x, y) ==
    CASE IsNumber(y) -> Ok(PyFloat(x.neg # y.neg, x.num * y.num, x.den * y.den))
      [] y.t = "bool" -> Ok(PyFloat(x.neg, IF y.v THEN x.num ELSE 0, x.den))
      [] OTHER -> Ok(x)

(* x * y for a float x: a float when y is a number (a bool counts as 0 or  *)
(* 1), a TypeError otherwise.                                              *)
Mul(x, y) ==
    CASE IsNumber(y) -> Ok(PyFloat(x.neg # y.neg, x.num * y.num, x.den * y.den))
      [] y.t = "bool" -> Ok(PyFloat(x.neg, IF y.v THEN x.num ELSE 0, x.den))
      [] y.t \in {"str", "list"} ->
            Raise("TypeError",
                  <<"can't multiply sequence by non-int of type 'float'">>)
      [] OTHER ->
            Raise("TypeError",
                  <<"unsupported operand type(s) for *: 'float' and '",
                    TypeName(y), "'">>)

(* [r * balance[i0], g * balance[i1], b * balance[i2]], the elements       *)
(* evaluated left to right; the first exception ends the evaluation.       *)
ScaleChannels(r, g, b, balance, i0, i1, i2) ==
    LET k0 == GetIndex(balance, i0) IN
    IF ~k0.ok THEN k0 ELSE
    LET x0 == Mul(r, k0.v) IN
    IF ~x0.ok THEN x0 ELSE
    LET k1 == GetIndex(balance, i1) IN
    IF ~k1.ok THEN k1 ELSE
    LET x1 == Mul(g, k1.v) IN
    IF ~x1.ok THEN x1 ELSE
    LET k2 == GetIndex(balance, i2) IN
    IF ~k2.ok THEN k2 ELSE
    LET x2 == Mul(b, k2.v) IN
    IF ~x2.ok THEN x2 ELSE Ok(<<x0.v, x1.v, x2.v>>)

(* The same with blue scaled by balance[2]. *)
apply_color_balance_blue2(r, g, b, balance) ==
    ScaleChannels(r, g, b, balance, 0, 1, 2)

apply_color_balance(r, g, b, balance) ==
    ScaleChannels(r, g, b, balance, 0, 1, 1)

(* The body of the generation loop for one (r, g, b): the three sample     *)
(* coordinates, the lookup of the balance, the scaled triple.              *)
FillEntry(data, r, g, b) ==
    LET r_val == TrueDiv(r, lut_size - 1)
        g_val == TrueDiv(g, lut_size - 1)
        b_val == TrueDiv(b, lut_size - 1)
        d == GetKey(data, "data")
    IN  IF ~d.ok THEN d ELSE
        LET s == GetKey(d.v, "s") IN
        IF ~s.ok THEN s ELSE
        LET balance == GetKey(s.v, "colorBalance") IN
        IF ~balance.ok THEN balance
        ELSE apply_color_balance(r_val, g_val, b_val, balance.v)

-----------------------------------------------------------------------------
(* The loops *)

Range == 0 .. (lut_size - 1)
Coords == Range \X Range \X Range

FirstPos == <<0, 0, 0>>
LastPos == <<lut_size - 1, lut_size - 1, lut_size - 1>>

(* The same nest with red innermost. *)
AdvanceRedInner(p) ==
    IF p[1] + 1 < lut_size THEN <<p[1] + 1, p[2], p[3]>>
    ELSE IF p[2] + 1 < lut_size THEN <<0, p[2] + 1, p[3]>>
    ELSE <<0, 0, p[3] + 1>>

(* for r: for g: for b: the position after p (p # LastPos). *)
Advance(p) ==
    IF p[3] + 1 < lut_size THEN <<p[1], p[2], p[3] + 1>>
    ELSE IF p[2] + 1 < lut_size THEN <<p[1], p[2] + 1, 0>>
    ELSE <<p[1] + 1, 0, 0>>

Zero == PyFloat(FALSE, 0, 1)

(* np.zeros((lut_size, lut_size, lut_size, 3)) *)
Zeros == [p \in Coords |-> <<Zero, Zero, Zero>>]

-----------------------------------------------------------------------------
(* Text *)

Lit(s) == [t |-> "lit", s |-> s]
Ch(c) == [t |-> "c", c |-> c]
NL == Ch("\n")

(* f"{x:.6f}": x rounded to a whole number of millionths, ties to even,    *)
(* written as sign, integer part and six decimals.                         *)
Format6(x) ==
    LET scaled == x.num * Micro
        q == scaled \div x.den
        rem == scaled % x.den
        micro == IF 2 * rem > x.den \/ (2 * rem = x.den /\ q % 2 = 1)
                 THEN q + 1 ELSE q
    IN  [t |-> "f", neg |-> x.neg, ip |-> micro \div Micro, fp |-> micro % Micro]

(* str(x) inside an f-string: the characters of a str, and for any other   *)
(* value one token that stands for its Python text.                        *)
StrOf(x) ==
    IF x.t = "str" THEN [k \in 1 .. Len(x.v) |-> Ch(x.v[k])]
    ELSE <<[t |-> "repr", v |-> x]>>

TitleLine(name) == <<Lit("TITLE \"")>> \o StrOf(name) \o <<Lit("\""), NL>>
SizeLine == <<Lit("LUT_3D_SIZE "), [t |-> "d", n |-> lut_size], NL>>
DataLine(e) ==
    <<Format6(e[1]), Ch(" "), Format6(e[2]), Ch(" "), Format6(e[3]), NL>>

(* The number of lines of a text: every line ends with a newline. *)
LineCount(text) == Cardinality({k \in 1 .. Len(text) : text[k] = NL})

-----------------------------------------------------------------------------
(* Exceptions *)

(* isinstance(e, ValueError): UnicodeDecodeError and json.JSONDecodeError  *)
(* are subclasses of ValueError.                                           *)
IsValueError(type) ==
    type \in {"ValueError", "UnicodeDecodeError", "JSONDecodeError"}

(* The same for a handler that catches ValueError only. *)
IsExceptionNarrow(type) == IsValueError(type)

(* isinstance(e, Exception) *)
IsException(type) ==
    \/ IsValueError(type)
    \/ type \in {"KeyError", "IndexError", "TypeError", "RecursionError"}

(* convert_json_to_lut's handler: any exception leaves as a ValueError     *)
(* whose text is "Error processing JSON: " and the exception's text.       *)
Wrap(exc) ==
    IF IsException(exc.type)
    THEN Exc("ValueError", <<"Error processing JSON: ">> \o exc.text)
    ELSE exc

(* convert's handlers, in their order: the template context of the page    *)
(* each one renders.                                                       *)
HandleError(exc) ==
    IF exc.type = "JSONDecodeError" THEN [error |-> <<"Invalid JSON file">>]
    ELSE IF IsValueError(exc.type) THEN [error |-> exc.text]
    ELSE IF IsException(exc.type)
         THEN [error |-> <<"An error occurred: ">> \o exc.text]
    ELSE [uncaught |-> exc]

-----------------------------------------------------------------------------
(* Uploads *)

NoFile == [present |-> FALSE]
File(filename, body) == [present |-> TRUE, filename |-> filename, body |-> body]

(* An upload's bytes: not UTF-8, text that is no JSON document, a JSON     *)
(* document nested deeper than the parser's recursion limit, or a JSON     *)
(* document with the value it parses to.                                   *)
Binary == [kind |-> "binary"]
Garbage == [kind |-> "text"]
Deep == [kind |-> "deep"]
Json(value) == [kind |-> "json", value |-> value]

(* filename.endswith('.json'); a file name is its stem and its extension. *)
EndsWithJson(filename) ==
    Len(filename) > 0 /\ filename[Len(filename)] = ".json"

(* file.read().decode('utf-8') *)
Decode(body) ==
    IF body.kind = "binary"
    THEN Raise("UnicodeDecodeError",
               <<"'utf-8' codec can't decode byte 0xff in position 0: invalid start byte">>)
    ELSE Ok(body)

(* json.loads(json_content) *)
Loads(text) ==
    CASE text.kind = "text" ->
            Raise("JSONDecodeError",
                  <<"Expecting value: line 1 column 1 (char 0)">>)
      [] text.kind = "deep" ->
            Raise("RecursionError",
                  <<"maximum recursion depth exceeded while decoding a JSON array from a unicode string">>)
      [] OTHER -> Ok(text.value)

-----------------------------------------------------------------------------
(* The uploads the clients send *)

One == PyInt(1)
Half == PyFloat(FALSE, 1, 2)
MinusOne == PyFloat(TRUE, 1, 1)

(* Elements of a colorBalance: numbers, and values that are no numbers. *)
Elems == {One, Half, MinusOne, Str(<<"x">>), None, List(<<>>), Dict({})}

(* What may follow the first two elements. *)
Tails == {<<>>, <<One>>, <<MinusOne>>, <<Str(<<"x">>)>>, <<Half, None>>}

Balances ==
    {List(<<>>), Str(<<"a", "b">>), One,
     List(<<Bool(TRUE), Half, One, One>>), List(<<One, Bool(FALSE), One, One>>)}
        \cup {List(<<a>>) : a \in Elems}
        \cup {List(<<a, b>> \o t) : a \in Elems, b \in Elems, t \in Tails}

(* The name: absent, or empty, blank, plain, with a line break, null. *)
NameValues ==
    {Str(<<>>), Str(<<" ">>), Str(<<"A">>), Str(<<"A", "\n", "B">>), None}
NamePairs == {{}} \cup {{<<"name", n>>} : n \in NameValues}

DataOf(balance) == Dict({<<"s", Dict({<<"colorBalance", balance>>})>>})

Documents ==
    {Dict(n \cup {<<"data", DataOf(b)>>}) : n \in NamePairs, b \in Balances}
        \cup {Dict(n) : n \in NamePairs}
        \cup {Dict({<<"name", Str(<<"A">>)>>, <<"data", d>>}) :
                d \in {Dict({}), Dict({<<"s", Dict({})>>}), List(<<>>), None}}
        \cup {List(<<>>), One}
        \cup {Dict({<<"name", Str(<<"A">>)>>, <<"version", One>>,
                    <<"data", Dict({<<"s", Dict({<<"colorBalance", List(<<One, Half>> \o t)>>,
                                                 <<"exposure", Half>>})>>,
                                    <<"t", None>>})>>}) : t \in Tails}

JsonName == <<"lut", ".json">>

Uploads ==
    {NoFile, File(<<>>, Garbage), File(<<"lut", ".txt">>, Json(One)),
     File(JsonName, Binary), File(JsonName, Garbage), File(JsonName, Deep)}
        \cup {File(JsonName, Json(d)) : d \in Documents}

(* The uploads of the concurrent clients: documents that agree on name,    *)
(* colorBalance[0] and colorBalance[1] and differ elsewhere, and documents *)
(* that fail early, late, or not at all.                                   *)
ConcDoc(n, b) == Dict(n \cup {<<"data", DataOf(List(b))>>})
ConcUploads ==
    {File(JsonName, Binary),
     File(JsonName, Json(ConcDoc({<<"name", Str(<<"A">>)>>}, <<One, Half, MinusOne>>))),
     File(JsonName, Json(Dict({<<"name", Str(<<"A">>)>>, <<"version", One>>,
        <<"data", Dict({<<"s", Dict({<<"colorBalance", List(<<One, Half, Str(<<"x">>), None>>)>>,
                                     <<"exposure", Half>>})>>})>>}))),
     File(JsonName, Json(ConcDoc({<<"name", Str(<<"A">>)>>}, <<One, Half>>))),
     File(JsonName, Json(ConcDoc({<<"name", Str(<<"A">>)>>}, <<One>>))),
     File(JsonName, Json(ConcDoc({}, <<One, Half, One>>))),
     File(JsonName, Json(ConcDoc({}, <<One, Half>>)))}

-----------------------------------------------------------------------------
(* The server: each thread serves one /convert request at a time. *)

Threads == {1, 2}

VARIABLES
    pc,         \* where each thread is in convert / convert_json_to_lut
    upload,     \* the request it serves
    json_data,  \* the parsed document
    idx,        \* the loop variables (r, g, b)
    lut,        \* the grid
    output,     \* the text written to the StringIO so far
    response    \* the template context of the page it rendered

vars == <<pc, upload, json_data, idx, lut, output, response>>

Unbound == [t |-> "unbound"]
Pending == [pending |-> TRUE]

Init ==
    /\ pc = [i \in Threads |-> "idle"]
    /\ upload = [i \in Threads |-> NoFile]
    /\ json_data = [i \in Threads |-> Unbound]
    /\ idx = [i \in Threads |-> FirstPos]
    /\ lut = [i \in Threads |-> <<>>]
    /\ output = [i \in Threads |-> <<>>]
    /\ response = [i \in Threads |-> Pending]

(* The handler returns the page rendered from context ctx; its frame, and  *)
(* convert_json_to_lut's, are gone.                                        *)
Respond(i, ctx) ==
    /\ response' = [response EXCEPT ![i] = ctx]
    /\ pc' = [pc EXCEPT ![i] = "done"]
    /\ json_data' = [json_data EXCEPT ![i] = Unbound]
    /\ idx' = [idx EXCEPT ![i] = FirstPos]
    /\ lut' = [lut EXCEPT ![i] = <<>>]
    /\ output' = [output EXCEPT ![i] = <<>>]
    /\ UNCHANGED upload

(* A POST /convert with upload u reaches thread i. *)
Receive(i, u) ==
    /\ pc[i] \in {"idle", "done"}
    /\ upload' = [upload EXCEPT ![i] = u]
    /\ response' = [response EXCEPT ![i] = Pending]
    /\ pc' = [pc EXCEPT ![i] = "check"]
    /\ UNCHANGED <<json_data, idx, lut, output>>

(* The three checks of the upload. *)
CheckUpload(i) ==
    /\ pc[i] = "check"
    /\ IF ~upload[i].present
       THEN Respond(i, [error |-> <<"No file uploaded">>])
       ELSE IF upload[i].filename = <<>>
       THEN Respond(i, [error |-> <<"No file selected">>])
       ELSE IF ~EndsWithJson(upload[i].filename)
       THEN Respond(i, [error |-> <<"Please upload a JSON file">>])
       ELSE /\ pc' = [pc EXCEPT ![i] = "read"]
            /\ UNCHANGED <<upload, json_data, idx, lut, output, response>>

(* The same with the upload read from a module-level global that the      *)
(* other thread's request overwrote, instead of this request's own file.   *)
ReadAndParseShared(i) ==
    /\ pc[i] = "read"
    /\ LET j == CHOOSE j \in Threads : j # i
           file == IF upload[j].present THEN upload[j] ELSE upload[i]
           text == Decode(file.body)
       IN  IF ~text.ok THEN Respond(i, HandleError(text.exc)) ELSE
           LET data == Loads(text.v) IN
           IF ~data.ok THEN Respond(i, HandleError(data.exc))
           ELSE /\ json_data' = [json_data EXCEPT ![i] = data.v]
                /\ lut' = [lut EXCEPT ![i] = Zeros]
                /\ idx' = [idx EXCEPT ![i] = FirstPos]
                /\ pc' = [pc EXCEPT ![i] = "fill"]
                /\ UNCHANGED <<upload, output, response>>

(* Read and parse the upload; on success convert_json_to_lut is entered    *)
(* and allocates the grid.                                                 *)
ReadAndParse(i) ==
    /\ pc[i] = "read"
    /\ LET text == Decode(upload[i].body) IN
       IF ~text.ok THEN Respond(i, HandleError(text.exc)) ELSE
       LET data == Loads(text.v) IN
       IF ~data.ok THEN Respond(i, HandleError(data.exc))
       ELSE /\ json_data' = [json_data EXCEPT ![i] = data.v]
            /\ lut' = [lut EXCEPT ![i] = Zeros]
            /\ idx' = [idx EXCEPT ![i] = FirstPos]
            /\ pc' = [pc EXCEPT ![i] = "fill"]
            /\ UNCHANGED <<upload, output, response>>

(* One iteration of the generation loop. *)
FillStep(i) ==
    /\ pc[i] = "fill"
    /\ LET p == idx[i]
           e == FillEntry(json_data[i], p[1], p[2], p[3])
       IN  IF ~e.ok THEN Respond(i, HandleError(Wrap(e.exc)))
           ELSE /\ lut' = [lut EXCEPT ![i][p] = e.v]
                /\ IF p = LastPos
                   THEN /\ pc' = [pc EXCEPT ![i] = "title"]
                        /\ idx' = idx
                   ELSE /\ idx' = [idx EXCEPT ![i] = Advance(p)]
                        /\ pc' = pc
                /\ UNCHANGED <<upload, json_data, output, response>>

(* output = io.StringIO() and the TITLE line. *)
WriteTitle(i) ==
    /\ pc[i] = "title"
    /\ LET name == GetKey(json_data[i], "name") IN
       IF ~name.ok THEN Respond(i, HandleError(Wrap(name.exc)))
       ELSE /\ output' = [output EXCEPT ![i] = TitleLine(name.v)]
            /\ pc' = [pc EXCEPT ![i] = "size"]
            /\ UNCHANGED <<upload, json_data, idx, lut, response>>

(* The LUT_3D_SIZE line; the serialisation loop starts. *)
WriteSize(i) ==
    /\ pc[i] = "size"
    /\ output' = [output EXCEPT ![i] = @ \o SizeLine]
    /\ idx' = [idx EXCEPT ![i] = FirstPos]
    /\ pc' = [pc EXCEPT ![i] = "write"]
    /\ UNCHANGED <<upload, json_data, lut, response>>

(* One iteration of the serialisation loop. *)
WriteLine(i) ==
    /\ pc[i] = "write"
    /\ LET p == idx[i] IN
       /\ output' = [output EXCEPT ![i] = @ \o DataLine(lut[i][p])]
       /\ IF p = LastPos
          THEN /\ pc' = [pc EXCEPT ![i] = "return"]
               /\ idx' = idx
          ELSE /\ idx' = [idx EXCEPT ![i] = Advance(p)]
               /\ pc' = pc
    /\ UNCHANGED <<upload, json_data, lut, response>>

(* return output.getvalue(), json_data['name'], and the success page. *)
Return(i) ==
    /\ pc[i] = "return"
    /\ LET name == GetKey(json_data[i], "name") IN
       IF ~name.ok THEN Respond(i, HandleError(Wrap(name.exc)))
       ELSE Respond(i, [success |-> TRUE, lut_content |-> output[i],
                        filename |-> name.v])

Step(i) ==
    \/ CheckUpload(i)
    \/ ReadAndParse(i)
    \/ FillStep(i)
    \/ WriteTitle(i)
    \/ WriteSize(i)
    \/ WriteLine(i)
    \/ Return(i)

(* One thread serving one request after another, any upload. *)
Next ==
    \/ \E u \in Uploads : Receive(1, u)
    \/ Step(1)

Spec == Init /\ [][Next]_vars

(* Both threads serving requests concurrently. *)
NextConc ==
    \/ \E i \in Threads, u \in ConcUploads : Receive(i, u)
    \/ \E i \in Threads : Step(i)

SpecConc == Init /\ [][NextConc]_vars

-----------------------------------------------------------------------------
(* Vocabulary of the properties *)

Cube == lut_size * lut_size * lut_size

(* The upload passes the three checks and its bytes are a JSON document. *)
IsJsonUpload(u) ==
    u.present /\ u.filename # <<>> /\ EndsWithJson(u.filename) /\ u.body.kind = "json"

(* The upload passes the three checks and its bytes are no JSON document. *)
IsNonJsonUpload(u) ==
    u.present /\ u.filename # <<>> /\ EndsWithJson(u.filename)
        /\ u.body.kind \in {"binary", "text"}

HasName(d) == d.t = "dict" /\ "name" \in DOMAIN d.v

HasBalance(d) ==
    /\ d.t = "dict" /\ "data" \in DOMAIN d.v
    /\ d.v.data.t = "dict" /\ "s" \in DOMAIN d.v.data.v
    /\ d.v.data.v.s.t = "dict" /\ "colorBalance" \in DOMAIN d.v.data.v.s.v

(* A document in which one of the keys data, s, colorBalance is absent. *)
LacksBalance(d) ==
    /\ d.t = "dict"
    /\ \/ "data" \notin DOMAIN d.v
       \/ /\ d.v.data.t = "dict"
          /\ \/ "s" \notin DOMAIN d.v.data.v
             \/ /\ d.v.data.v.s.t = "dict"
                /\ "colorBalance" \notin DOMAIN d.v.data.v.s.v

BalanceIn(d) == d.v.data.v.s.v.colorBalance

(* A list whose elements at positions 0 and 1 exist. *)
HasTwo(bal) == bal.t = "list" /\ Len(bal.v) >= 2

NonNumeric(x) == x.t \in {"str", "null", "list", "dict"}

Signed(x) == IF x.neg THEN -x.num ELSE x.num

(* The float x is the number coord / (lut_size - 1) * factor. *)
IsScaled(x, coord, factor) ==
    Signed(x) * (lut_size - 1) * factor.den = coord * Signed(factor) * x.den

(* The pages of /convert. *)
IsErrorPage(page) == DOMAIN page = {"error"} /\ Len(page.error) > 0
IsSuccessPage(page) == DOMAIN page = {"success", "lut_content", "filename"}
IsConfigError(page) ==
    DOMAIN page = {"error"} /\ page.error[1] = "Error processing JSON: "
IsParseError(page) == page = [error |-> <<"Invalid JSON file">>]

(* The k-th position of the nest, k in 0 .. Cube - 1. *)
CoordOf(k) ==
    <<k \div (lut_size * lut_size), (k \div lut_size) % lut_size, k % lut_size>>

(* The data lines of the first n positions of grid, in order. *)
RECURSIVE DataText(_, _)
DataText(grid, n) ==
    IF n = 0 THEN <<>> ELSE DataText(grid, n - 1) \o DataLine(grid[CoordOf(n - 1)])

(* How many positions precede p in the nest. *)
Rank(p) == p[1] * lut_size * lut_size + p[2] * lut_size + p[3]

AfterFill == {"title", "size", "write", "return"}

-----------------------------------------------------------------------------
(* C1: once the generation loop has run for a colorBalance whose first two *)
(* elements br, bg are numbers, the grid has exactly lut_size^3 entries    *)
(* and entry (r, g, b) is (r/(N-1)*br, g/(N-1)*bg, b/(N-1)*bg): blue is    *)
(* scaled by bg, whatever a third element holds.                           *)
C1_GridMatchesFormula ==
    \A i \in Threads :
        (/\ pc[i] \in AfterFill
         /\ HasTwo(BalanceIn(json_data[i]))
         /\ IsNumber(BalanceIn(json_data[i]).v[1])
         /\ IsNumber(BalanceIn(json_data[i]).v[2]))
        => LET br == BalanceIn(json_data[i]).v[1]
               bg == BalanceIn(json_data[i]).v[2]
           IN  /\ DOMAIN lut[i] = Coords
               /\ Cardinality(DOMAIN lut[i]) = Cube
               /\ \A p \in Coords :
                    /\ IsScaled(lut[i][p][1], p[1], br)
                    /\ IsScaled(lut[i][p][2], p[2], bg)
                    /\ IsScaled(lut[i][p][3], p[3], bg)

(* A grid generated from [1, 0.5, -1]: its last entry is (1, 0.5, 0.5). *)
C1_Witness ==
    /\ pc[1] = "title"
    /\ BalanceIn(json_data[1]) = List(<<One, Half, MinusOne>>)
    /\ lut[1][LastPos] = <<PyFloat(FALSE, 1, 1), Half, Half>>

(* C2: every success page carries a document of exactly 2 + lut_size^3     *)
(* lines, whatever the name and the colorBalance.                          *)
C2_LineCount ==
    \A i \in Threads :
        (pc[i] = "done" /\ IsSuccessPage(response[i]))
        => LineCount(response[i].lut_content) = 2 + Cube

(* C3: while and after the serialisation loop runs, the text is the two    *)
(* header lines followed by the data lines of the positions before the     *)
(* loop variables (all of them at the end), the k-th data line being the   *)
(* entry at (k div N^2, (k div N) mod N, k mod N).                         *)
C3_NestedOrder ==
    \A i \in Threads :
        pc[i] \in {"write", "return"}
        => LET done == IF pc[i] = "return" THEN Cube ELSE Rank(idx[i])
           IN  output[i] = TitleLine(json_data[i].v.name) \o SizeLine
                              \o DataText(lut[i], done)

(* The loop for [1, 0.5] has finished: every entry was written. *)
C3_Witness ==
    /\ pc[1] = "return"
    /\ BalanceIn(json_data[1]) = List(<<One, Half>>)
    /\ Len(output[1]) = Len(TitleLine(json_data[1].v.name)) + 3 + 6 * Cube

(* C4: a JSON upload in which one of the keys data, s, colorBalance is     *)
(* absent, or whose colorBalance is a list of fewer than 2 elements, ends  *)
(* in the error page of convert_json_to_lut's ValueError ("Error           *)
(* processing JSON: ..."), which carries neither a document nor a          *)
(* filename.                                                               *)
C4_MissingBalanceFails ==
    \A i \in Threads :
        (/\ pc[i] = "done"
         /\ IsJsonUpload(upload[i])
         /\ LET d == upload[i].body.value
            IN  \/ LacksBalance(d)
                \/ /\ HasBalance(d)
                   /\ BalanceIn(d).t = "list"
                   /\ Len(BalanceIn(d).v) < 2)
        => /\ IsConfigError(response[i])
           /\ "lut_content" \notin DOMAIN response[i]
           /\ "filename" \notin DOMAIN response[i]

(* A colorBalance of the one number 1: the second element is missed. *)
C4_Witness ==
    /\ pc[1] = "done"
    /\ IsJsonUpload(upload[1])
    /\ HasBalance(upload[1].body.value)
    /\ BalanceIn(upload[1].body.value) = List(<<One>>)
    /\ response[1] = [error |-> <<"Error processing JSON: ", "list index out of range">>]

(* C5: an upload whose bytes are no JSON document, text or not, ends in    *)
(* the "Invalid JSON file" page of the JSONDecodeError handler.            *)
C5_NonJsonIsParseError ==
    \A i \in Threads :
        (pc[i] = "done" /\ IsNonJsonUpload(upload[i]))
        => IsParseError(response[i])

(* C6 as stated: a colorBalance list with a string, null, list or dict at  *)
(* any position ends in the ValueError page without a document.            *)
C6_AnyPositionFails ==
    \A i \in Threads :
        (/\ pc[i] = "done"
         /\ IsJsonUpload(upload[i])
         /\ HasBalance(upload[i].body.value)
         /\ BalanceIn(upload[i].body.value).t = "list"
         /\ \E k \in 1 .. Len(BalanceIn(upload[i].body.value).v) :
                NonNumeric(BalanceIn(upload[i].body.value).v[k]))
        => /\ IsConfigError(response[i])
           /\ "lut_content" \notin DOMAIN response[i]

(* C6 as amended: a colorBalance list with a string, null, list or dict as *)
(* its first or second element ends in the ValueError page without a       *)
(* document.                                                               *)
C6_FirstTwoPositionsFail ==
    \A i \in Threads :
        (/\ pc[i] = "done"
         /\ IsJsonUpload(upload[i])
         /\ HasBalance(upload[i].body.value)
         /\ BalanceIn(upload[i].body.value).t = "list"
         /\ \E k \in 1 .. 2 :
                /\ k <= Len(BalanceIn(upload[i].body.value).v)
                /\ NonNumeric(BalanceIn(upload[i].body.value).v[k]))
        => /\ IsConfigError(response[i])
           /\ "lut_content" \notin DOMAIN response[i]

(* [1, null, ...]: the green factor is no number. *)
C6_Witness ==
    /\ pc[1] = "done"
    /\ IsJsonUpload(upload[1])
    /\ HasBalance(upload[1].body.value)
    /\ HasTwo(BalanceIn(upload[1].body.value))
    /\ BalanceIn(upload[1].body.value).v[1] = One
    /\ BalanceIn(upload[1].body.value).v[2] = None
    /\ response[1] = [error |-> <<"Error processing JSON: ",
                                  "unsupported operand type(s) for *: 'float' and '",
                                  "NoneType", "'">>]

(* Only blanks (or nothing). *)
IsBlank(chars) == \A k \in 1 .. Len(chars) : chars[k] \in {" ", "\t", "\n"}

(* C7: a JSON upload whose name is the empty string or only whitespace     *)
(* ends in an error page; no document is returned.                         *)
C7_EmptyTitleRejected ==
    \A i \in Threads :
        (/\ pc[i] = "done"
         /\ IsJsonUpload(upload[i])
         /\ HasName(upload[i].body.value)
         /\ upload[i].body.value.v.name.t = "str"
         /\ IsBlank(upload[i].body.value.v.name.v))
        => /\ IsErrorPage(response[i])
           /\ "lut_content" \notin DOMAIN response[i]

(* What a document holds under name, colorBalance[0] and colorBalance[1]:  *)
(* the value in a one-element tuple, or the empty tuple when it is absent. *)
NameKey(d) == IF HasName(d) THEN <<d.v.name>> ELSE <<>>
BalanceKey(d, k) ==
    IF ~HasBalance(d) THEN <<>>
    ELSE LET bal == BalanceIn(d) IN
         IF bal.t = "list" /\ k <= Len(bal.v) THEN <<bal.v[k]>>
         ELSE IF bal.t = "str" /\ k <= Len(bal.v) THEN <<Str(<<bal.v[k]>>)>>
         ELSE <<>>
Agree(d, e) ==
    /\ NameKey(d) = NameKey(e)
    /\ BalanceKey(d, 1) = BalanceKey(e, 1)
    /\ BalanceKey(d, 2) = BalanceKey(e, 2)

(* C8: two conversions of documents that agree on name, colorBalance[0]    *)
(* and colorBalance[1] both succeed or both fail, and when they succeed    *)
(* they return the same document and filename.                             *)
C8_DependsOnThreeValues ==
    \A i, j \in Threads :
        (/\ pc[i] = "done" /\ pc[j] = "done"
         /\ IsJsonUpload(upload[i]) /\ IsJsonUpload(upload[j])
         /\ Agree(upload[i].body.value, upload[j].body.value))
        => /\ IsSuccessPage(response[i]) <=> IsSuccessPage(response[j])
           /\ IsSuccessPage(response[i]) => response[i] = response[j]

(* Two different documents that agree on the three values, both converted. *)
C8_Witness ==
    /\ pc[1] = "done" /\ pc[2] = "done"
    /\ IsJsonUpload(upload[1]) /\ IsJsonUpload(upload[2])
    /\ upload[1] # upload[2]
    /\ Agree(upload[1].body.value, upload[2].body.value)
    /\ BalanceKey(upload[1].body.value, 3) # BalanceKey(upload[2].body.value, 3)
    /\ IsSuccessPage(response[1]) /\ IsSuccessPage(response[2])

(* text at offset o holds one data line: three numbers, two blanks, a      *)
(* newline.                                                                *)
IsDataLine(text, o) ==
    /\ text[o + 1].t = "f" /\ text[o + 2] = Ch(" ")
    /\ text[o + 3].t = "f" /\ text[o + 4] = Ch(" ")
    /\ text[o + 5].t = "f" /\ text[o + 6] = NL

(* text is everything the serialiser writes: both header lines and all     *)
(* lut_size^3 data lines.                                                  *)
IsCompleteDocument(text, name) ==
    LET header == TitleLine(name) \o SizeLine IN
    /\ Len(text) = Len(header) + 6 * Cube
    /\ SubSeq(text, 1, Len(header)) = header
    /\ \A k \in 0 .. Cube - 1 : IsDataLine(text, Len(header) + 6 * k)

(* C9: a request has a page exactly when it is done, and the page is       *)
(* either an error page (a message, no document, no filename) or a success *)
(* page with the complete document and the name as its filename; an        *)
(* exception that no handler caught never becomes the outcome.             *)
C9_AllOrNothing ==
    \A i \in Threads :
        /\ (pc[i] = "done") <=> (response[i] # Pending)
        /\ pc[i] = "done" =>
            \/ IsErrorPage(response[i])
            \/ /\ IsSuccessPage(response[i])
               /\ response[i].success
               /\ IsJsonUpload(upload[i])
               /\ HasName(upload[i].body.value)
               /\ response[i].filename = upload[i].body.value.v.name
               /\ IsCompleteDocument(response[i].lut_content,
                                     upload[i].body.value.v.name)

(* The name is missed only after the grid was filled: an error page. *)
C9_Witness ==
    /\ pc[1] = "done"
    /\ IsJsonUpload(upload[1])
    /\ ~HasName(upload[1].body.value)
    /\ HasBalance(upload[1].body.value)
    /\ BalanceIn(upload[1].body.value) = List(<<One, Half, MinusOne>>)
    /\ response[1] = [error |-> <<"Error processing JSON: ", "'", "name", "'">>]

(* C10: whatever the threads served before and however their steps         *)
(* interleave, two conversions of the same upload end with the same page.  *)
C10_SameInputSamePage ==
    \A i, j \in Threads :
        (pc[i] = "done" /\ pc[j] = "done" /\ upload[i] = upload[j])
        => response[i] = response[j]

(* Both threads converted the same document. *)
C10_Witness ==
    /\ pc[1] = "done" /\ pc[2] = "done"
    /\ upload[1] = upload[2]
    /\ IsSuccessPage(response[1]) /\ IsSuccessPage(response[2])
====
